---- MODULE Spec2Model ----
(***************************************************************************)
(* Model of source/orangeom/orangeom_globals.hpp.                          *)
(*                                                                         *)
(* Two state machines share the module:                                    *)
(*   Spec       one wrapped native function after another, each written as *)
(*              PyTRY <body> PyCATCH / PyCATCH_1 / PyCATCH_r(r) <after>.   *)
(*   BuildSpec  the preprocessor walking the header's directives under     *)
(*              every combination of the build flags.                      *)
(***************************************************************************)
EXTENDS Integers, Sequences, FiniteSets, TLC

\* ------------------------------------------------------------------ bounds
MaxSteps == 2
MaxCalls == 2
MaxIncludes == 2

\* ------------------------------------------------------- values and failures
NoResult == "<no value>"
NoErr == [category |-> "none", message |-> ""]
NoExc == [kind |-> "none", category |-> "", message |-> ""]

\* Error states a pyexception may carry, or the guarded body may set itself.
CarriedErrors ==
  { [category |-> "PyExc_TypeError", message |-> "bad argument"],
    [category |-> "PyExc_OrangeKernel", message |-> "singular matrix"] }

Messages == {"singular matrix", "out of range"}

Failures ==
  { [kind |-> "pyexception", category |-> e.category, message |-> e.message] : e \in CarriedErrors }
  \cup { [kind |-> "mlexception", category |-> "", message |-> m] : m \in Messages }
  \cup { [kind |-> "std::bad_alloc", category |-> "", message |-> "bad allocation"] }

BodyValues == {"result object", "-1"}

\* ------------------------------------------------------------- the macros
PYNULL == "((PyObject *)NULL)"

\* pyexception::restore(): puts the error the exception carries back into
\* the host's error indicator.
restore(err) == [category |-> err.category, message |-> err.message]

\* mlexception::what(): the failure's message text.
what(err) == err.message

\* PYERROR(type, message, result): report `message` under `type`; the
\* statement's return of `result` is done by the action that executes it.
PYERROR(type, message) == [category |-> type, message |-> message]

Stmt(op, type, value) == [op |-> op, type |-> type, value |-> value]

\* Variants of PyCATCH_r with one slip each.
PyCATCH_r_norestore(r) ==
  [ clauses |->
      << [catches |-> "pyexception",
          body |-> << Stmt("return", "", r) >>],
         [catches |-> "mlexception",
          body |-> << Stmt("PYERROR", "PyExc_OrangeKernel", r) >>] >>,
    tail |-> << >> ]

PyCATCH_r_wrongcategory(r) ==
  [ clauses |->
      << [catches |-> "pyexception",
          body |-> << Stmt("restore", "", ""), Stmt("return", "", r) >>],
         [catches |-> "mlexception",
          body |-> << Stmt("PYERROR", "PyExc_Exception", r) >>] >>,
    tail |-> << >> ]

PyCATCH_r_silent(r) ==
  [ clauses |->
      << [catches |-> "pyexception",
          body |-> << Stmt("restore", "", ""), Stmt("return", "", r) >>],
         [catches |-> "mlexception",
          body |-> << Stmt("return", "", r) >>] >>,
    tail |-> << >> ]

PyCATCH_r_tailreturn(r) ==
  [ clauses |->
      << [catches |-> "pyexception",
          body |-> << Stmt("restore", "", ""), Stmt("return", "", r) >>],
         [catches |-> "mlexception",
          body |-> << Stmt("PYERROR", "PyExc_OrangeKernel", r) >>] >>,
    tail |-> << Stmt("return", "", r) >> ]

\* PyCATCH_r(r): closes the try block and appends the two catch clauses, in
\* this order.  `tail` is what the macro puts after the last clause: nothing.
PyCATCH_r(r) ==
  [ clauses |->
      << [catches |-> "pyexception",
          body |-> << Stmt("restore", "", ""), Stmt("return", "", r) >>],
         [catches |-> "mlexception",
          body |-> << Stmt("PYERROR", "PyExc_OrangeKernel", r) >>] >>,
    tail |-> << >> ]

\* PyCATCH written out on its own, reporting under another category.
PyCATCH_owncategory ==
  [ clauses |->
      << [catches |-> "pyexception",
          body |-> << Stmt("restore", "", ""), Stmt("return", "", PYNULL) >>],
         [catches |-> "mlexception",
          body |-> << Stmt("PYERROR", "PyExc_Exception", PYNULL) >>] >>,
    tail |-> << >> ]

PyCATCH == PyCATCH_r(PYNULL)

PyCATCH_1 == PyCATCH_r("-1")

\* PyTRY opens the guarded region: `try {`.  It contributes one event and
\* touches nothing else.
PyTRY == << "try {" >>

SentinelArgs == {PYNULL, "-1", "0"}

Sites ==
  { [closer |-> "PyCATCH", r |-> ""], [closer |-> "PyCATCH_1", r |-> ""] }
  \cup { [closer |-> "PyCATCH_r", r |-> a] : a \in SentinelArgs }

Expand(s) ==
  CASE s.closer = "PyCATCH" -> PyCATCH
    [] s.closer = "PyCATCH_1" -> PyCATCH_1
    [] OTHER -> PyCATCH_r(s.r)

\* A clause that takes every failure, as `catch (std::exception)` would.
Matches_base(clause, failure) == failure.kind # "none"

\* A clause `catch (T err)` takes a failure whose type is T.
Matches(clause, failure) == clause.catches = failure.kind

\* Clauses are tried in the order written; 0 when none takes the failure.
SelectHandler(clauses, failure) ==
  IF \E i \in 1..Len(clauses) : Matches(clauses[i], failure)
  THEN CHOOSE i \in 1..Len(clauses) :
         /\ Matches(clauses[i], failure)
         /\ \A j \in 1..(i-1) : ~Matches(clauses[j], failure)
  ELSE 0

NoPrev == [site |-> [closer |-> "", r |-> ""], raised |-> NoExc, handler |-> 0,
           hostErr |-> NoErr, result |-> NoResult]

VARIABLES
  pc,        \* "idle","body","unwinding","handler","after","returned","propagated"
  site,      \* the closer macro of the current call site and its argument
  handlers,  \* the expansion of that closer
  hostErr,   \* the host's error indicator
  bodyErr,   \* the host's error indicator as the guarded body last left it
  raised,    \* the failure raised by the body of the current call
  handler,   \* index of the clause that took the failure, 0 if none
  hip,       \* next statement of that clause's body
  result,    \* value the wrapped function returned
  intended,  \* value the body or the code after the macro chose to return
  via,       \* who returned: "body", "after", "handler", "tail"
  log,       \* what the boundary did in the current call, in order
  steps,     \* body steps executed in the current call
  calls,     \* calls made so far
  prev,      \* outcome of the previous call when a handler ended it
  flags, ppc, condStack, macros, defCount, linkReqs, includes

runVars == << pc, site, handlers, hostErr, bodyErr, raised, handler, hip,
              result, intended, via, log, steps, calls, prev >>
buildVars == << flags, ppc, condStack, macros, defCount, linkReqs, includes >>
vars == << runVars, buildVars >>


\* ===================================================== the guarded call
NoHandlers == [clauses |-> << >>, tail |-> << >>]

InitRun ==
  /\ pc = "idle"
  /\ site = NoPrev.site
  /\ handlers = NoHandlers
  /\ hostErr = NoErr
  /\ bodyErr = NoErr
  /\ raised = NoExc
  /\ handler = 0
  /\ hip = 0
  /\ result = NoResult
  /\ intended = NoResult
  /\ via = "none"
  /\ log = << >>
  /\ steps = 0
  /\ calls = 0
  /\ prev = NoPrev

\* The host calls a wrapped function; control enters the region at PyTRY.
Call(s) ==
  /\ pc \in {"idle", "returned"}
  /\ calls < MaxCalls
  /\ prev' = IF pc = "returned" /\ via = "handler"
             THEN [site |-> site, raised |-> raised, handler |-> handler,
                   hostErr |-> hostErr, result |-> result]
             ELSE prev
  /\ site' = s
  /\ handlers' = Expand(s)
  /\ raised' = NoExc
  /\ handler' = 0
  /\ hip' = 0
  /\ result' = NoResult
  /\ intended' = NoResult
  /\ via' = "none"
  /\ log' = PyTRY
  /\ steps' = 0
  /\ calls' = calls + 1
  /\ bodyErr' = hostErr
  /\ pc' = "body"
  /\ UNCHANGED hostErr

\* A statement of the guarded body that leaves the error indicator alone.
BodyStep ==
  /\ pc = "body"
  /\ steps < MaxSteps
  /\ steps' = steps + 1
  /\ UNCHANGED << pc, site, handlers, hostErr, bodyErr, raised, handler, hip,
                  result, intended, via, log, calls, prev >>

\* A statement of the guarded body that sets or clears the error indicator.
BodySetErr(e) ==
  /\ pc = "body"
  /\ steps < MaxSteps
  /\ steps' = steps + 1
  /\ hostErr' = e
  /\ bodyErr' = e
  /\ UNCHANGED << pc, site, handlers, raised, handler, hip,
                  result, intended, via, log, calls, prev >>

\* `return v;` inside the guarded body.
BodyReturn(v) ==
  /\ pc = "body"
  /\ intended' = v
  /\ result' = v
  /\ via' = "body"
  /\ pc' = "returned"
  /\ UNCHANGED << site, handlers, hostErr, bodyErr, raised, handler, hip,
                  log, steps, calls, prev >>

\* A statement of the guarded body throws.
BodyThrow(f) ==
  /\ pc = "body"
  /\ raised' = f
  /\ pc' = "unwinding"
  /\ UNCHANGED << site, handlers, hostErr, bodyErr, handler, hip,
                  result, intended, via, log, steps, calls, prev >>

\* The body reaches the closing brace of the try block without returning:
\* control passes the catch clauses to whatever the macro and then the
\* caller put after them.
RegionEnd ==
  /\ pc = "body"
  /\ IF handlers.tail = << >>
     THEN /\ pc' = "after"
          /\ UNCHANGED << result, via >>
     ELSE /\ pc' = "returned"
          /\ result' = handlers.tail[1].value
          /\ via' = "tail"
  /\ UNCHANGED << site, handlers, hostErr, bodyErr, raised, handler, hip,
                  intended, log, steps, calls, prev >>

\* The caller-supplied code after the closer returns.
AfterReturn(v) ==
  /\ pc = "after"
  /\ intended' = v
  /\ result' = v
  /\ via' = "after"
  /\ pc' = "returned"
  /\ UNCHANGED << site, handlers, hostErr, bodyErr, raised, handler, hip,
                  log, steps, calls, prev >>

\* The failure in flight is taken by the first clause that matches it.
Catch ==
  /\ pc = "unwinding"
  /\ LET h == SelectHandler(handlers.clauses, raised) IN
       /\ h # 0
       /\ handler' = h
       /\ hip' = 1
       /\ log' = Append(log, handlers.clauses[h].catches)
  /\ pc' = "handler"
  /\ UNCHANGED << site, handlers, hostErr, bodyErr, raised,
                  result, intended, via, steps, calls, prev >>

\* No clause matches: the failure leaves the function.
Propagate ==
  /\ pc = "unwinding"
  /\ SelectHandler(handlers.clauses, raised) = 0
  /\ pc' = "propagated"
  /\ UNCHANGED << site, handlers, hostErr, bodyErr, raised, handler, hip,
                  result, intended, via, log, steps, calls, prev >>

CurStmt == handlers.clauses[handler].body[hip]

InHandler ==
  /\ pc = "handler"
  /\ handler \in 1..Len(handlers.clauses)
  /\ hip \in 1..Len(handlers.clauses[handler].body)

\* err.restore();
HandlerRestore ==
  /\ InHandler
  /\ CurStmt.op = "restore"
  /\ hostErr' = restore(raised)
  /\ hip' = hip + 1
  /\ log' = Append(log, "restore")
  /\ UNCHANGED << pc, site, handlers, bodyErr, raised, handler,
                  result, intended, via, steps, calls, prev >>

\* The handler goes back into the guarded body instead of returning.
HandlerReturn_retry ==
  /\ InHandler
  /\ CurStmt.op = "return"
  /\ pc' = "body"
  /\ log' = Append(log, "return")
  /\ UNCHANGED << site, handlers, hostErr, bodyErr, raised, handler, hip,
                  result, via, intended, steps, calls, prev >>

\* return r;
HandlerReturn ==
  /\ InHandler
  /\ CurStmt.op = "return"
  /\ result' = CurStmt.value
  /\ via' = "handler"
  /\ pc' = "returned"
  /\ log' = Append(log, "return")
  /\ UNCHANGED << site, handlers, hostErr, bodyErr, raised, handler, hip,
                  intended, steps, calls, prev >>

\* PYERROR(PyExc_OrangeKernel, err.what(), r);
HandlerPYERROR ==
  /\ InHandler
  /\ CurStmt.op = "PYERROR"
  /\ hostErr' = PYERROR(CurStmt.type, what(raised))
  /\ result' = CurStmt.value
  /\ via' = "handler"
  /\ pc' = "returned"
  /\ log' = Append(log, "PYERROR")
  /\ UNCHANGED << site, handlers, bodyErr, raised, handler, hip,
                  intended, steps, calls, prev >>

Next ==
  \/ \E s \in Sites : Call(s) /\ UNCHANGED buildVars
  \/ BodyStep /\ UNCHANGED buildVars
  \/ \E e \in CarriedErrors \cup {NoErr} : BodySetErr(e) /\ UNCHANGED buildVars
  \/ \E v \in BodyValues : BodyReturn(v) /\ UNCHANGED buildVars
  \/ \E f \in Failures : BodyThrow(f) /\ UNCHANGED buildVars
  \/ RegionEnd /\ UNCHANGED buildVars
  \/ \E v \in BodyValues : AfterReturn(v) /\ UNCHANGED buildVars
  \/ Catch /\ UNCHANGED buildVars
  \/ Propagate /\ UNCHANGED buildVars
  \/ HandlerRestore /\ UNCHANGED buildVars
  \/ HandlerReturn /\ UNCHANGED buildVars
  \/ HandlerPYERROR /\ UNCHANGED buildVars

\* ======================================================= the preprocessor
Dir(line, op, name, body, arg) ==
  [line |-> line, op |-> op, name |-> name, body |-> body, arg |-> arg]

\* The directives between the include guard's lines, in file order.  `arg`
\* is the identifier a macro body forwards to the macro it expands to.
HeaderBody ==
  << Dir(4, "include", "garbage.hpp", "", ""),
     Dir(6, "ifdef", "_MSC_VER", "", ""),
     Dir(7, "ifdef", "ORANGEOM_EXPORTS", "", ""),
     Dir(8, "define", "ORANGEOM_API", "__declspec(dllexport)", ""),
     Dir(9, "define", "EXPIMP_TEMPLATE", "", ""),
     Dir(10, "else", "", "", ""),
     Dir(11, "define", "ORANGEOM_API", "__declspec(dllimport)", ""),
     Dir(12, "define", "EXPIMP_TEMPLATE", "extern", ""),
     Dir(14, "ifdef", "_DEBUG", "", ""),
     Dir(15, "pragma", "comment(lib)", "orange_d.lib", ""),
     Dir(16, "else", "", "", ""),
     Dir(17, "pragma", "comment(lib)", "orange.lib", ""),
     Dir(18, "endif", "", "", ""),
     Dir(19, "endif", "", "", ""),
     Dir(20, "else", "", "", ""),
     Dir(21, "define", "ORANGEOM_API", "", ""),
     Dir(22, "define", "EXPIMP_TEMPLATE", "", ""),
     Dir(23, "endif", "", "", ""),
     Dir(25, "define", "OMWRAPPER", "BASIC_WRAPPER", "ORANGENE_API"),
     Dir(26, "define", "OMVWRAPPER", "BASIC_VWRAPPER", "ORANGENE_API"),
     Dir(29, "include", "../pyxtract/pyxtract_macros.hpp", "", ""),
     Dir(31, "define", "PyTRY", "try {", ""),
     Dir(33, "define", "PYNULL", "((PyObject *)NULL)", ""),
     Dir(34, "define", "PyCATCH", "PyCATCH_r", "PYNULL"),
     Dir(35, "define", "PyCATCH_1", "PyCATCH_r", "-1"),
     Dir(37, "define", "PyCATCH_r", "} catch (pyexception err) catch (mlexception err)", "r") >>

\* The header without its include guard.
Header_noguard == HeaderBody

\* The whole file: the include guard around the body.
Header ==
  << Dir(1, "ifndef", "__ORANGEOM_GLOBALS", "", ""),
     Dir(2, "define", "__ORANGEOM_GLOBALS", "", "") >>
  \o HeaderBody
  \o << Dir(42, "endif", "", "", "") >>

BuildFlags == {"_MSC_VER", "ORANGEOM_EXPORTS", "_DEBUG"}

HeaderNames == { Header[i].name : i \in { j \in 1..Len(Header) : Header[j].op = "define" } }

EndOfHeader == Len(Header) + 1

InitBuild ==
  /\ flags \in SUBSET BuildFlags
  /\ ppc = 0
  /\ condStack = << >>
  /\ macros = << >>
  /\ defCount = [n \in HeaderNames |-> 0]
  /\ linkReqs = << >>
  /\ includes = 0

Defined(n) == n \in flags \/ n \in DOMAIN macros

\* #else ignored: only the first branch of a group can be live.
GroupLive_noelse(g) == g.parent /\ g.cond

\* A conditional group is live when the enclosing group is live and its
\* condition holds (before #else) or fails (after #else).
GroupLive(g) == g.parent /\ (g.cond # g.inElse)

Live == IF condStack = << >> THEN TRUE ELSE GroupLive(condStack[Len(condStack)])

AtDir(op) == ppc \in 1..Len(Header) /\ Header[ppc].op = op

\* A translation unit includes the header (again).
PpInclude ==
  /\ ppc \in {0, EndOfHeader}
  /\ includes < MaxIncludes
  /\ includes' = includes + 1
  /\ ppc' = 1
  /\ UNCHANGED << flags, condStack, macros, defCount, linkReqs >>

PpIfdef ==
  /\ AtDir("ifdef")
  /\ condStack' = Append(condStack,
        [parent |-> Live, cond |-> Defined(Header[ppc].name), inElse |-> FALSE])
  /\ ppc' = ppc + 1
  /\ UNCHANGED << flags, macros, defCount, linkReqs, includes >>

PpIfndef ==
  /\ AtDir("ifndef")
  /\ condStack' = Append(condStack,
        [parent |-> Live, cond |-> ~Defined(Header[ppc].name), inElse |-> FALSE])
  /\ ppc' = ppc + 1
  /\ UNCHANGED << flags, macros, defCount, linkReqs, includes >>

PpElse ==
  /\ AtDir("else")
  /\ condStack # << >>
  /\ condStack' = [condStack EXCEPT ![Len(condStack)].inElse = TRUE]
  /\ ppc' = ppc + 1
  /\ UNCHANGED << flags, macros, defCount, linkReqs, includes >>

PpEndif ==
  /\ AtDir("endif")
  /\ condStack # << >>
  /\ condStack' = SubSeq(condStack, 1, Len(condStack) - 1)
  /\ ppc' = ppc + 1
  /\ UNCHANGED << flags, macros, defCount, linkReqs, includes >>

PpDefine ==
  /\ AtDir("define")
  /\ Live
  /\ LET d == Header[ppc] IN
       /\ macros' = (d.name :> [body |-> d.body, arg |-> d.arg]) @@ macros
       /\ defCount' = [defCount EXCEPT ![d.name] = @ + 1]
  /\ ppc' = ppc + 1
  /\ UNCHANGED << flags, condStack, linkReqs, includes >>

PpPragma ==
  /\ AtDir("pragma")
  /\ Live
  /\ linkReqs' = Append(linkReqs, Header[ppc].body)
  /\ ppc' = ppc + 1
  /\ UNCHANGED << flags, condStack, macros, defCount, includes >>

\* #include of another header: its content is not part of this file.
PpIncludeOther ==
  /\ AtDir("include")
  /\ Live
  /\ ppc' = ppc + 1
  /\ UNCHANGED << flags, condStack, macros, defCount, linkReqs, includes >>

\* A line inside a group that is not live is dropped.
PpSkip ==
  /\ ppc \in 1..Len(Header)
  /\ Header[ppc].op \in {"define", "pragma", "include"}
  /\ ~Live
  /\ ppc' = ppc + 1
  /\ UNCHANGED << flags, condStack, macros, defCount, linkReqs, includes >>

BuildNext ==
  \/ PpInclude /\ UNCHANGED runVars
  \/ PpIfdef /\ UNCHANGED runVars
  \/ PpIfndef /\ UNCHANGED runVars
  \/ PpElse /\ UNCHANGED runVars
  \/ PpEndif /\ UNCHANGED runVars
  \/ PpDefine /\ UNCHANGED runVars
  \/ PpPragma /\ UNCHANGED runVars
  \/ PpIncludeOther /\ UNCHANGED runVars
  \/ PpSkip /\ UNCHANGED runVars

\* The build machine at rest, for the runs of the guarded call.
BuildIdle ==
  /\ flags = {}
  /\ ppc = 0
  /\ condStack = << >>
  /\ macros = << >>
  /\ defCount = [n \in HeaderNames |-> 0]
  /\ linkReqs = << >>
  /\ includes = 0

Init == InitRun /\ BuildIdle

Spec == Init /\ [][Next]_vars

BuildInit == InitBuild /\ InitRun

BuildSpec == BuildInit /\ [][BuildNext]_vars



\* Sequential execution: a function that can take its next step takes it.
FairSpec ==
  /\ Init
  /\ [][Next]_vars
  /\ WF_vars(Catch /\ UNCHANGED buildVars)
  /\ WF_vars(Propagate /\ UNCHANGED buildVars)
  /\ WF_vars(HandlerRestore /\ UNCHANGED buildVars)
  /\ WF_vars(HandlerReturn /\ UNCHANGED buildVars)
  /\ WF_vars(HandlerPYERROR /\ UNCHANGED buildVars)

\* ================================================================ claims

\* The sentinel a call site configures, read off the macro text.
Configured(s) ==
  CASE s.closer = "PyCATCH" -> "((PyObject *)NULL)"
    [] s.closer = "PyCATCH_1" -> "-1"
    [] OTHER -> s.r

Recognized == {"pyexception", "mlexception"}

HandlerEvents(l) == { i \in 1..Len(l) : l[i] \in Recognized }

\* C1: when the guarded body raised a pyexception and the call has returned,
\* the value returned is the sentinel of the call site, the boundary did
\* exactly: enter, catch pyexception, restore() once, return; and the host
\* error state is what restore() produced from that failure.
C1_PyexceptionRestoresAndReturnsSentinel ==
  (pc = "returned" /\ raised.kind = "pyexception") =>
    /\ result = Configured(site)
    /\ via = "handler"
    /\ log = << "try {", "pyexception", "restore", "return" >>
    /\ hostErr = restore(raised)

C1_Witness ==
  /\ pc = "returned"
  /\ raised.kind = "pyexception"
  /\ site.closer = "PyCATCH_r"
  /\ bodyErr # NoErr
  /\ bodyErr # hostErr

\* C2: when the guarded body raised an mlexception and the call has returned,
\* the value returned is the sentinel of the call site and the host error
\* state is category PyExc_OrangeKernel with the failure's message unchanged.
C2_MlexceptionReportsKernelError ==
  (pc = "returned" /\ raised.kind = "mlexception") =>
    /\ result = Configured(site)
    /\ via = "handler"
    /\ hostErr = [category |-> "PyExc_OrangeKernel", message |-> raised.message]

C2_Witness ==
  /\ pc = "returned"
  /\ raised.kind = "mlexception"
  /\ raised.message = "out of range"
  /\ bodyErr.category = "PyExc_TypeError"

\* C3: a failure of any other kind is taken by no clause: no value is
\* returned, no handler event is logged, the boundary leaves the host error
\* state as the body left it, and the call ends propagated, never returned.
C3_UnrecognizedFailurePropagates ==
  (raised.kind \notin (Recognized \cup {"none"})) =>
    /\ pc \in {"unwinding", "propagated"}
    /\ result = NoResult
    /\ via = "none"
    /\ handler = 0
    /\ log = << "try {" >>
    /\ hostErr = bodyErr

C3_Witness ==
  /\ pc = "propagated"
  /\ raised.kind = "std::bad_alloc"
  /\ hostErr # NoErr

\* C4: when the guarded body raises nothing, a value returned inside the
\* body or by the code after the closer is the value the caller gets, a body
\* that does not return reaches the code after the closer, no handler runs
\* and the host error state is as the body left it.
C4_NoFailureNoEffect ==
  (raised = NoExc /\ pc \in {"after", "returned"}) =>
    /\ handler = 0
    /\ log = << "try {" >>
    /\ hostErr = bodyErr
    /\ (pc = "returned" => via \in {"body", "after"} /\ result = intended)
    /\ (pc = "after" => result = NoResult)

C4_Witness ==
  /\ pc = "returned"
  /\ raised = NoExc
  /\ via = "after"
  /\ result = "-1"
  /\ hostErr # NoErr

\* C5: a call that has returned gave either the value its own code chose,
\* or, through a handler, the sentinel of the call site with the host error
\* state set.
C5_SentinelImpliesErrorSet ==
  (pc = "returned") =>
    \/ via \in {"body", "after"} /\ result = intended
    \/ via = "handler" /\ result = Configured(site) /\ hostErr.category # "none"

C5_Witness ==
  /\ pc = "returned"
  /\ via = "handler"
  /\ bodyErr = NoErr
  /\ hostErr # NoErr

ImportMode == "_MSC_VER" \in flags /\ "ORANGEOM_EXPORTS" \notin flags
ExportMode == "_MSC_VER" \in flags /\ "ORANGEOM_EXPORTS" \in flags

Visibility == {"ORANGEOM_API", "EXPIMP_TEMPLATE"}

\* C6: once the header has been read, ORANGEOM_API and EXPIMP_TEMPLATE are
\* defined, each by exactly one #define, as: export annotation and empty in
\* export mode, import annotation and `extern` in import mode, both empty
\* without _MSC_VER whatever ORANGEOM_EXPORTS is.
C6_VisibilitySelection ==
  (ppc = EndOfHeader) =>
    /\ Visibility \subseteq DOMAIN macros
    /\ \A n \in Visibility : defCount[n] = 1
    /\ ExportMode =>
         /\ macros["ORANGEOM_API"].body = "__declspec(dllexport)"
         /\ macros["EXPIMP_TEMPLATE"].body = ""
    /\ ImportMode =>
         /\ macros["ORANGEOM_API"].body = "__declspec(dllimport)"
         /\ macros["EXPIMP_TEMPLATE"].body = "extern"
    /\ ("_MSC_VER" \notin flags) =>
         /\ macros["ORANGEOM_API"].body = ""
         /\ macros["EXPIMP_TEMPLATE"].body = ""

C6_Witness ==
  /\ ppc = EndOfHeader
  /\ includes = 2
  /\ flags = {"ORANGEOM_EXPORTS", "_DEBUG"}
  /\ macros["ORANGEOM_API"].body = ""

C7_Inv ==
  /\ log # << >> => log[1] = "try {" /\ \A i \in 2..Len(log) : log[i] # "try {"
  /\ Cardinality(HandlerEvents(log)) <= 1
  /\ (raised.kind \in Recognized) => pc \in {"unwinding", "handler", "returned"}
  /\ (pc = "returned" /\ raised.kind = "pyexception") =>
        log = << "try {", "pyexception", "restore", "return" >>
  /\ (pc = "returned" /\ raised.kind = "mlexception") =>
        log = << "try {", "mlexception", "PYERROR" >>

C7_Step ==
  (raised # NoExc /\ calls' = calls) =>
    /\ steps' = steps
    /\ raised' = raised
    /\ pc' \notin {"body", "after"}
    /\ bodyErr' = bodyErr

\* C7: after the body raises, no further body step runs in that call, the
\* region is entered once, at most one handler runs, and a pyexception
\* always ends in restore-and-return, an mlexception always in
\* PYERROR-and-return: every such call does return.
C7_FirstFailureDecides ==
  /\ []C7_Inv
  /\ [][C7_Step]_vars
  /\ ((raised.kind \in Recognized) ~> (pc = "returned"))

C7_Witness ==
  /\ pc = "returned"
  /\ raised.kind = "mlexception"
  /\ steps = MaxSteps
  /\ calls = 2

\* C8: PyCATCH gives the null object pointer and PyCATCH_1 gives -1 as
\* sentinel; a call ended by a handler that follows such a call with the same
\* failure ran the same clause and left the same host error state, and
\* returned the same value when the two sentinels are the same.
C8_ClosersDifferOnlyInSentinel ==
  (pc = "returned" /\ via = "handler") =>
    /\ site.closer = "PyCATCH" => result = "((PyObject *)NULL)"
    /\ site.closer = "PyCATCH_1" => result = "-1"
    /\ (prev.raised = raised) =>
         /\ prev.handler = handler
         /\ prev.hostErr = hostErr
         /\ (Configured(prev.site) = Configured(site)) => prev.result = result

C8_Witness ==
  /\ pc = "returned"
  /\ via = "handler"
  /\ prev.raised = raised
  /\ raised.kind = "mlexception"
  /\ prev.site = [closer |-> "PyCATCH_r", r |-> "((PyObject *)NULL)"]
  /\ site.closer = "PyCATCH"

\* C9: a library is requested for linking only in import mode, once:
\* orange_d.lib with _DEBUG, orange.lib without; never in export mode or
\* without _MSC_VER.
C9_LinkRequestOnlyInImportMode ==
  /\ (linkReqs # << >>) => ImportMode
  /\ Len(linkReqs) <= 1
  /\ (ppc = EndOfHeader) =>
       linkReqs = IF ImportMode
                  THEN IF "_DEBUG" \in flags THEN << "orange_d.lib" >> ELSE << "orange.lib" >>
                  ELSE << >>

C9_Witness ==
  /\ ppc = EndOfHeader
  /\ includes = 2
  /\ linkReqs = << "orange.lib" >>

\* C10: the annotation OMWRAPPER and OMVWRAPPER forward to the wrapper
\* machinery is ORANGEOM_API, a macro the header's visibility selection
\* has defined.
C10_WrapperForwardsOwnAnnotation ==
  \A w \in {"OMWRAPPER", "OMVWRAPPER"} :
    (w \in DOMAIN macros) =>
      /\ macros[w].arg = "ORANGEOM_API"
      /\ macros[w].arg \in DOMAIN macros

====
